---- MODULE Spec2Model ----
(***************************************************************************)
(* Model of the document ingestion pipeline of stage-RAG:                  *)
(*   - ocr_system/main_ocr.py : OCRSystem (conflict resolution, single     *)
(*     file and directory ingestion, artifact writing), main()             *)
(*   - backend/app.py         : upload workflow and processing_status      *)
(*   - ocr_system/document_processor.py : the extractors of PDF, Word and *)
(*     text files; ocr_system/ocr_processor.py : the OCR engine            *)
(* Strings are sequences of one-character strings, so that sanitising,     *)
(* stripping and the numbering of alternative names are computed.          *)
(***************************************************************************)
EXTENDS Integers, Sequences, FiniteSets, TLC

(***************************************************************************)
(* Bounds of the model.                                                    *)
(***************************************************************************)
\* number of OCRSystem calls in one behaviour of the sequential specification
MaxOps == 3
\* number of uploads in one behaviour of the upload workflow
MaxUploads == 2

(***************************************************************************)
(* Characters and strings.                                                 *)
(***************************************************************************)
LowerChars == <<"a", "b", "c", "d", "e", "f", "n", "o", "p", "s", "t", "x", "y", "z">>
UpperChars == <<"A", "B", "C", "D", "E", "F", "N", "O", "P", "S", "T", "X", "Y", "Z">>
DigitChars == <<"0", "1", "2", "3", "4", "5", "6", "7", "8", "9">>

Range(s) == {s[i] : i \in DOMAIN s}

\* a letter outside ASCII (stands for e-acute): Python's \w matches it
UnicodeLetters == {"E_ACUTE"}

Whitespace == {" ", "\t", "\n"}

\* str.upper() on one character
UpperChar(c) ==
    IF c \in Range(LowerChars)
    THEN UpperChars[CHOOSE i \in DOMAIN LowerChars : LowerChars[i] = c]
    ELSE c

\* str.lower() on one character
LowerChar(c) ==
    IF c \in Range(UpperChars)
    THEN LowerChars[CHOOSE i \in DOMAIN UpperChars : UpperChars[i] = c]
    ELSE c

Upper(s) == [i \in DOMAIN s |-> UpperChar(s[i])]
Lower(s) == [i \in DOMAIN s |-> LowerChar(s[i])]

\* str.strip(): drop leading and trailing whitespace
RECURSIVE LStrip(_)
LStrip(s) == IF s # <<>> /\ Head(s) \in Whitespace THEN LStrip(Tail(s)) ELSE s

RECURSIVE RStrip(_)
RStrip(s) ==
    IF s # <<>> /\ s[Len(s)] \in Whitespace
    THEN RStrip(SubSeq(s, 1, Len(s) - 1))
    ELSE s

Strip(s) == LStrip(RStrip(s))

\* str(counter) for a non-negative integer
RECURSIVE Str(_)
Str(n) == IF n < 10 THEN <<DigitChars[n + 1]>> ELSE Str(n \div 10) \o <<DigitChars[(n % 10) + 1]>>

\* the regular expression class \w of Python 3 on str
IsWordChar(c) ==
    \/ c \in Range(LowerChars) \cup Range(UpperChars) \cup Range(DigitChars)
    \/ c = "_"
    \/ c \in UnicodeLetters

\* re.sub(r'[^\w\-_\.]', '_', base_name)
SafeName(stem) ==
    [i \in DOMAIN stem |-> IF IsWordChar(stem[i]) \/ stem[i] \in {"-", "_", "."}
                           THEN stem[i] ELSE "_"]

(***************************************************************************)
(* Source files.  A file is its directory, stem and suffix (pathlib's      *)
(* parent, stem and suffix of the resolved path).                          *)
(***************************************************************************)
File(dir, stem, ext) == [dir |-> dir, stem |-> stem, ext |-> ext]

\* Path.name
FileName(f) == f.stem \o f.ext

\* str(path) of the resolved path
PathStr(f) == f.dir \o <<"/">> \o FileName(f)

PdfExt == <<".", "p", "d", "f">>
DocxExt == <<".", "d", "o", "c", "x">>
DocExt == <<".", "d", "o", "c">>
TxtExt == <<".", "t", "x", "t">>
XyzExt == <<".", "x", "y", "z">>

\* the keys of self.supported_extensions whose letters the model's alphabet holds
SupportedExtensions == {PdfExt, DocxExt, DocExt, TxtExt}

RootDir == <<"/", "d">>
SubDir == <<"/", "d", "/", "s">>
OtherDir == <<"/", "o">>
DatasetDir == <<"/", "d", "a", "t", "a", "s", "e", "t">>

A_PDF == File(RootDir, <<"a">>, PdfExt)
A_DOCX == File(RootDir, <<"a">>, DocxExt)
SUB_A_PDF == File(SubDir, <<"a">>, PdfExt)
A_1_TXT == File(OtherDir, <<"a", "_", "1">>, TxtExt)
A_XYZ == File(RootDir, <<"a">>, XyzExt)
GONE_TXT == File(OtherDir, <<"b">>, TxtExt)
NoFile == File(<<>>, <<>>, <<>>)

\* the files on disk in the sequential specification, and the paths it is called with
DiskFiles == {A_PDF, A_DOCX, SUB_A_PDF, A_1_TXT, A_XYZ}
InputDirs == {RootDir, SubDir}

IsPrefix(p, s) == Len(p) <= Len(s) /\ SubSeq(s, 1, Len(p)) = p

\* file f lies in directory dir or below it (rglob('*'))
Under(dir, f) == f.dir = dir \/ IsPrefix(dir \o <<"/">>, f.dir)

(***************************************************************************)
(* Text.  A text is a sequence of lines; a line is the prefix it starts    *)
(* with (tag), what follows that prefix (rest), and for a line without     *)
(* such a prefix its number of characters (n).                             *)
(***************************************************************************)
TextLine(n) == [tag |-> "text", rest |-> <<>>, n |-> n]
TaggedLine(tag, rest) == [tag |-> tag, rest |-> rest, n |-> 0]
RuleLine == [tag |-> "rule", rest |-> <<>>, n |-> 80]

\* len("Source File:") and so on
TagLen(tag) ==
    CASE tag = "Source File:" -> 12
      [] tag = "File Path:" -> 10
      [] tag = "Extraction Date:" -> 16
      [] tag = "File Type:" -> 10
      [] tag = "Text Length:" -> 12
      [] tag = "Legacy .doc file detected." -> 99

LineLen(l) == IF l.tag \in {"text", "rule"} THEN l.n ELSE TagLen(l.tag) + Len(l.rest)

\* len(text): the lines and the newlines between them
RECURSIVE TextLen(_)
TextLen(t) ==
    IF t = <<>> THEN 0
    ELSE IF Len(t) = 1 THEN LineLen(t[1])
    ELSE LineLen(Head(t)) + 1 + TextLen(Tail(t))

\* the first k characters of a line
Truncate(l, k) ==
    IF l.tag \in {"text", "rule"} THEN [l EXCEPT !.n = k]
    ELSE IF k >= TagLen(l.tag) THEN [l EXCEPT !.rest = SubSeq(l.rest, 1, k - TagLen(l.tag))]
    ELSE TextLine(k)

\* f.read(k).split('\n'): the lines of the first k characters
RECURSIVE ReadChars(_, _)
ReadChars(lines, k) ==
    IF lines = <<>> \/ k <= 0 THEN <<>>
    ELSE IF LineLen(Head(lines)) <= k
         THEN <<Head(lines)>> \o ReadChars(Tail(lines), k - LineLen(Head(lines)) - 1)
         ELSE <<Truncate(Head(lines), k)>>

(***************************************************************************)
(* Artifacts.  The output directory maps an artifact's file name to its    *)
(* content: whether it decodes as UTF-8, and its lines.                    *)
(***************************************************************************)
Artifact(lines) == [readable |-> TRUE, lines |-> lines]

\* an output directory without files
EmptyDir == [n \in {} |-> Artifact(<<>>)]

CharactersSuffix == <<" ", "c", "h", "a", "r", "a", "c", "t", "e", "r", "s">>

\* what process_single_file writes for source f, extracted text t, at time now
ArtifactLines(f, t, now) ==
    << TaggedLine("Source File:", <<" ">> \o FileName(f)),
       TaggedLine("File Path:", <<" ">> \o PathStr(f)),
       TaggedLine("Extraction Date:", <<" ">> \o Str(now)),
       TaggedLine("File Type:", <<" ">> \o Upper(Lower(f.ext))),
       TaggedLine("Text Length:", <<" ">> \o Str(TextLen(t)) \o CharactersSuffix),
       RuleLine,
       TextLine(0) >> \o t

\* the header lines of an artifact written for source f
HeaderOf(f) ==
    << TaggedLine("Source File:", <<" ">> \o FileName(f)),
       TaggedLine("File Path:", <<" ">> \o PathStr(f)) >>

\* Python's None, distinct from every string
None == <<"None">>

\* truth value of an Optional[str]
Truthy(v) == v # None /\ v # <<>>

\* number of characters _check_naming_conflict reads
MetadataChars == 1000

\* the loop over the lines read: a later line with the same prefix replaces the value
RECURSIVE ParseMetadata(_, _)
ParseMetadata(lines, info) ==
    IF lines = <<>> THEN info
    ELSE LET l == Head(lines)
             v == Strip(l.rest)
         IN  ParseMetadata(Tail(lines),
                 IF l.tag = "Source File:" THEN [info EXCEPT !.existing_source = v]
                 ELSE IF l.tag = "File Path:" THEN [info EXCEPT !.file_path = v]
                 ELSE IF l.tag = "Extraction Date:" THEN [info EXCEPT !.extraction_date = v]
                 ELSE info)

NoConflictInfo ==
    [is_same_source |-> FALSE, existing_source |-> None,
     extraction_date |-> None, file_path |-> None]

\* existing_source of an artifact that could not be read
UnknownSource == <<"Unknown">>

\* OCRSystem._check_naming_conflict(output_file, input_path)
CheckNamingConflict(art, f) ==
    IF ~art.readable
    THEN [NoConflictInfo EXCEPT !.existing_source = UnknownSource]
    ELSE LET info == ParseMetadata(ReadChars(art.lines, MetadataChars), NoConflictInfo)
         IN  IF info.existing_source = FileName(f)
             THEN IF Truthy(info.file_path)
                  THEN [info EXCEPT !.is_same_source = (PathStr(f) = info.file_path)]
                  ELSE [info EXCEPT !.is_same_source = TRUE]
             ELSE info

\* self.output_dir / f"{safe_name}.txt"
OutputName(safe) == safe \o TxtExt

\* self.output_dir / f"{safe_name}_{counter}.txt"
AlternativeName(safe, counter) == safe \o <<"_">> \o Str(counter) \o TxtExt

\* the while loop: the first counter >= 1 whose alternative name does not exist
FirstFreeCounter(outdir, safe) ==
    CHOOSE n \in 1..(Cardinality(DOMAIN outdir) + 1) :
        /\ AlternativeName(safe, n) \notin DOMAIN outdir
        /\ \A m \in 1..(n - 1) : AlternativeName(safe, m) \in DOMAIN outdir

\* generate_output_filename without the search for an alternative name: the
\* candidate path is returned although another source's artifact is there
GenerateOutputFilenameNoAlternative(outdir, f) ==
    LET output_file == OutputName(SafeName(f.stem))
    IN  IF output_file \in DOMAIN outdir
           /\ CheckNamingConflict(outdir[output_file], f).is_same_source
        THEN [action |-> "Skip", name |-> None]
        ELSE [action |-> "Write", name |-> output_file]

\* generate_output_filename without the look at the output directory: the
\* candidate path is returned whatever is there
GenerateOutputFilenameNoCheck(outdir, f) ==
    [action |-> "Write", name |-> OutputName(SafeName(f.stem))]

\* OCRSystem.generate_output_filename(input_path): None is action "Skip"
GenerateOutputFilename(outdir, f) ==
    LET safe == SafeName(f.stem)
        output_file == OutputName(safe)
    IN  IF output_file \in DOMAIN outdir
        THEN IF CheckNamingConflict(outdir[output_file], f).is_same_source
             THEN [action |-> "Skip", name |-> None]
             ELSE [action |-> "WriteAlternative",
                   name |-> AlternativeName(safe, FirstFreeCounter(outdir, safe))]
        ELSE [action |-> "Write", name |-> output_file]

(***************************************************************************)
(* OCRSystem.process_single_file                                           *)
(***************************************************************************)
\* the threshold of "if text and len(text.strip()) > 10"
MinTextChars == 10

\* text.strip(): ordinary lines hold no whitespace, so empty lines at both ends go
RECURSIVE StripText(_)
StripText(t) ==
    IF t # <<>> /\ Head(t) = TextLine(0) THEN StripText(Tail(t))
    ELSE IF t # <<>> /\ t[Len(t)] = TextLine(0) THEN StripText(SubSeq(t, 1, Len(t) - 1))
    ELSE t

\* open(output_file, 'w') ... f.write(...): creates the file or replaces its content
WriteFile(outdir, name, art) ==
    [n \in DOMAIN outdir \cup {name} |-> IF n = name THEN art ELSE outdir[n]]

\* what a call did, in order: "call" process_single_file entered, "scan" the
\* conflict check of the pre-scan, "extract" the extractor invoked, "write" the
\* output file opened for writing
Event(ev, f) == [ev |-> ev, file |-> f]

FileResult(ok, outcome, outdir, wrote, trace) ==
    [ok |-> ok, outcome |-> outcome, outdir |-> outdir, wrote |-> wrote, trace |-> trace]

\* file_path.exists() being true for every path
ExistsAlways(disk, f) == TRUE

\* file_path.exists()
Exists(disk, f) == f \in disk

\* "if output_file is None" taken for an error: return False
SkipResultAsFailure(outdir, trace) == FileResult(FALSE, "Skipped", outdir, None, trace)

\* "if output_file is None: ... return True"
SkipResult(outdir, trace) == FileResult(TRUE, "Skipped", outdir, None, trace)

\* process_single_file(file_path) with the files on disk, the text the extractor
\* of each file returns, the output directory and the time; fault is the
\* exception raised inside the try block ("extract", "write") or "none"; an
\* extractor raises as well on a file it cannot open
ProcessSingleFile(disk, extracted, outdir, now, f, fault) ==
    IF ~Exists(disk, f) THEN FileResult(FALSE, "NotFound", outdir, None, <<Event("call", f)>>)
    ELSE IF Lower(f.ext) \notin SupportedExtensions
    THEN FileResult(FALSE, "Unsupported", outdir, None, <<Event("call", f)>>)
    ELSE IF fault = "extract" \/ f \notin DOMAIN extracted
    THEN FileResult(FALSE, "Error", outdir, None, <<Event("call", f), Event("extract", f)>>)
    ELSE LET text == extracted[f]
             trace == <<Event("call", f), Event("extract", f)>>
         IN  IF text # <<>> /\ TextLen(StripText(text)) > MinTextChars
             THEN LET output_file == GenerateOutputFilename(outdir, f)
                  IN  IF output_file.action = "Skip"
                      THEN SkipResult(outdir, trace)
                      ELSE IF fault = "write"
                      THEN FileResult(FALSE, "Error", outdir, None, trace)
                      ELSE FileResult(TRUE, "Written",
                               WriteFile(outdir, output_file.name,
                                         Artifact(ArtifactLines(f, text, now))),
                               output_file.name, Append(trace, Event("write", f)))
             ELSE FileResult(FALSE, "NoText", outdir, None, trace)

(***************************************************************************)
(* OCRSystem.process_directory                                             *)
(***************************************************************************)
\* the enumeration of the supported files below a directory, in every order
RECURSIVE Orders(_)
Orders(S) ==
    IF S = {} THEN {<<>>}
    ELSE UNION {{<<x>> \o o : o \in Orders(S \ {x})} : x \in S}

SupportedFilesUnder(disk, dir) ==
    {f \in disk : Under(dir, f) /\ Lower(f.ext) \in SupportedExtensions}

\* OCRSystem._analyze_directory_conflicts(all_files)
RECURSIVE AnalyzeDirectoryConflicts(_, _)
AnalyzeDirectoryConflicts(outdir, all_files) ==
    IF all_files = <<>> THEN [skipped_files |-> {}, alternative_names |-> <<>>]
    ELSE LET file_path == Head(all_files)
             safe == SafeName(file_path.stem)
             expected_output == OutputName(safe)
             rest == AnalyzeDirectoryConflicts(outdir, Tail(all_files))
         IN  IF expected_output \in DOMAIN outdir
             THEN IF CheckNamingConflict(outdir[expected_output], file_path).is_same_source
                  THEN [rest EXCEPT !.skipped_files = @ \cup {file_path}]
                  ELSE [rest EXCEPT !.alternative_names =
                           << <<FileName(file_path),
                                AlternativeName(safe, FirstFreeCounter(outdir, safe))>> >> \o @]
             ELSE rest

NoBatch ==
    [outdir |-> EmptyDir, results |-> <<>>, processed |-> 0, failed |-> 0, skipped |-> 0,
     wrote |-> {}, overwrote |-> FALSE, trace |-> <<>>]

\* the loop "for i, file_path in enumerate(all_files, 1)" of process_directory;
\* bad holds the files whose extractor raises
RECURSIVE ProcessFiles(_, _, _, _, _, _, _)
ProcessFiles(disk, extracted, now, all_files, skipped_files, bad, acc) ==
    IF all_files = <<>> THEN acc
    ELSE LET file_path == Head(all_files)
             r == ProcessSingleFile(disk, extracted, acc.outdir, now, file_path,
                                    IF file_path \in bad THEN "extract" ELSE "none")
         IN  ProcessFiles(disk, extracted, now, Tail(all_files), skipped_files, bad,
                 IF file_path \in skipped_files
                 THEN [acc EXCEPT !.skipped = @ + 1,
                                  !.results = Append(@, [file |-> file_path,
                                                         outcome |-> "PreSkipped"])]
                 ELSE [outdir |-> r.outdir,
                       results |-> Append(acc.results, [file |-> file_path,
                                                        outcome |-> r.outcome]),
                       processed |-> acc.processed + (IF r.ok THEN 1 ELSE 0),
                       failed |-> acc.failed + (IF r.ok THEN 0 ELSE 1),
                       skipped |-> acc.skipped,
                       wrote |-> IF r.wrote = None THEN acc.wrote
                                 ELSE acc.wrote \cup {r.wrote},
                       overwrote |-> acc.overwrote
                                     \/ (r.wrote # None /\ r.wrote \in DOMAIN acc.outdir),
                       trace |-> acc.trace \o r.trace])

\* the conflict checks _analyze_directory_conflicts makes, one for each file
ScanTrace(all_files) == [i \in DOMAIN all_files |-> Event("scan", all_files[i])]

\* process_directory without the pre-scan: every file goes to process_single_file
ProcessDirectoryNoPreScan(disk, extracted, outdir, now, all_files, bad) ==
    ProcessFiles(disk, extracted, now, all_files, {}, bad, [NoBatch EXCEPT !.outdir = outdir])

\* process_directory(directory_path) for one enumeration order of its files
ProcessDirectory(disk, extracted, outdir, now, all_files, bad) ==
    LET conflicts_summary == AnalyzeDirectoryConflicts(outdir, all_files)
    IN  ProcessFiles(disk, extracted, now, all_files, conflicts_summary.skipped_files,
                     bad, [NoBatch EXCEPT !.outdir = outdir,
                                          !.trace = ScanTrace(all_files)])

\* the rate without the test of the denominator
SuccessRateUnguarded(processed_count, found, skipped_count) ==
    [defined |-> TRUE, num |-> processed_count, den |-> found - skipped_count]

\* "Success rate": processed_count / (len(all_files) - skipped_count) if the
\* denominator is positive, else "No files to process"
SuccessRate(processed_count, found, skipped_count) ==
    IF found - skipped_count > 0
    THEN [defined |-> TRUE, num |-> processed_count, den |-> found - skipped_count]
    ELSE [defined |-> FALSE, num |-> 0, den |-> 0]

\* a dry run that empties the output directory as clean_output_directory does
CheckConflictsOnlyCleaning(outdir, all_files) ==
    [outdir |-> EmptyDir, trace |-> ScanTrace(all_files),
     conflicts |-> AnalyzeDirectoryConflicts(outdir, all_files)]

\* OCRSystem.check_conflicts_only(input_path), all_files being the supported
\* files found at input_path: the conflict analysis, then reads of the conflict
\* headers and of the first 200 characters of up to ten artifacts for the report
CheckConflictsOnly(outdir, all_files) ==
    IF all_files = <<>>
    THEN [outdir |-> outdir, trace |-> <<>>,
          conflicts |-> [skipped_files |-> {}, alternative_names |-> <<>>]]
    ELSE [outdir |-> outdir, trace |-> ScanTrace(all_files),
          conflicts |-> AnalyzeDirectoryConflicts(outdir, all_files)]

(***************************************************************************)
(* DocumentProcessor: the extractors of Word and plain-text files.  What   *)
(* the libraries and tools yield for a file is its content record; an      *)
(* extractor returns its text, and here also the tiers it went through.    *)
(***************************************************************************)
\* what a reader or tool ended with: an exception, or a text
Raises == [raises |-> TRUE, text |-> <<>>]
Yields(text) == [raises |-> FALSE, text |-> text]

\* the sum of a sequence of numbers
RECURSIVE Sum(_)
Sum(ns) == IF ns = <<>> THEN 0 ELSE Head(ns) + Sum(Tail(ns))

\* the entries of a sequence of numbers that are positive
RECURSIVE NonBlank(_)
NonBlank(ns) ==
    IF ns = <<>> THEN <<>>
    ELSE IF Head(ns) > 0 THEN <<Head(ns)>> \o NonBlank(Tail(ns))
    ELSE NonBlank(Tail(ns))

\* the lines "paragraph.text.strip() + '\n'" of the paragraphs that are not
\* blank; a paragraph is given by its number of characters after strip()
ParagraphLines(paragraphs) ==
    [i \in DOMAIN NonBlank(paragraphs) |-> TextLine(NonBlank(paragraphs)[i])]

\* the lines '" | ".join(row_text) + "\n"' of the rows with a cell that is not
\* blank; a row is given by the numbers of characters of its cells after strip()
RECURSIVE RowLines(_)
RowLines(rows) ==
    IF rows = <<>> THEN <<>>
    ELSE LET row_text == NonBlank(Head(rows))
         IN  (IF row_text = <<>> THEN <<>>
              ELSE <<TextLine(Sum(row_text) + 3 * (Len(row_text) - 1))>>)
             \o RowLines(Tail(rows))

\* the text accumulated from doc.paragraphs and doc.tables; every line ends
\* with a newline, which leaves an empty last line
DocxText(docx) ==
    LET lines == ParagraphLines(docx.paragraphs) \o RowLines(docx.rows)
    IN  IF lines = <<>> THEN <<>> ELSE lines \o <<TextLine(0)>>

\* DocumentProcessor._try_antiword(doc_path)
TryAntiword(c) ==
    IF ~c.antiword.raises /\ c.antiword.returncode = 0 /\ StripText(c.antiword.stdout) # <<>>
    THEN StripText(c.antiword.stdout)
    ELSE <<>>

\* the encodings _try_text_extraction decodes the bytes with
ScanEncodings == <<"utf-8", "latin-1", "cp1252", "utf-16">>

\* text_parts: the readable runs found under each encoding, one after the other
RECURSIVE TextParts(_, _)
TextParts(runs, encodings) ==
    IF encodings = <<>> THEN <<>>
    ELSE runs[Head(encodings)] \o TextParts(runs, Tail(encodings))

\* DocumentProcessor._try_text_extraction(doc_path): the runs joined by a space;
\* a run is given by the number of characters it keeps once whitespace is
\* collapsed and the joined text stripped
TryTextExtraction(c) ==
    LET text_parts == TextParts(c.scan.runs, ScanEncodings)
    IN  IF ~c.scan.raises /\ text_parts # <<>>
        THEN StripText(<<TextLine(Sum(text_parts) + Len(text_parts) - 1)>>)
        ELSE <<>>

\* DocumentProcessor._doc_to_ocr(doc_path): the message for the operator
DocToOcr(f) == <<TaggedLine("Legacy .doc file detected.", FileName(f))>>

\* the threshold of "if text and len(text.strip()) > 10" in the legacy reader
MinLegacyChars == 10

\* a tier of the legacy reader accepted from 10 characters on
LegacySufficientFromTen(text) == text # <<>> /\ TextLen(StripText(text)) >= MinLegacyChars

\* "if text and len(text.strip()) > 10"
LegacySufficient(text) == text # <<>> /\ TextLen(StripText(text)) > MinLegacyChars

Extraction(text, tiers) == [text |-> text, tiers |-> tiers]

\* DocumentProcessor._extract_text_from_legacy_doc(doc_path)
ExtractTextFromLegacyDoc(c, f) ==
    IF LegacySufficient(TryAntiword(c))
    THEN Extraction(StripText(TryAntiword(c)), <<"antiword">>)
    ELSE IF LegacySufficient(TryTextExtraction(c))
    THEN Extraction(StripText(TryTextExtraction(c)), <<"antiword", "scan">>)
    ELSE Extraction(DocToOcr(f), <<"antiword", "scan", "placeholder">>)

\* DocumentProcessor.extract_text_from_docx(docx_path)
ExtractTextFromDocx(c, f) ==
    IF ~c.docx.raises /\ StripText(DocxText(c.docx)) # <<>>
    THEN Extraction(StripText(DocxText(c.docx)), <<"docx">>)
    ELSE LET legacy == ExtractTextFromLegacyDoc(c, f)
         IN  Extraction(legacy.text, <<"docx">> \o legacy.tiers)

\* the list with the single-byte encoding in front
TxtEncodingsLatinFirst ==
    <<"latin-1", "utf-8", "utf-16", "cp1252", "iso-8859-1", "windows-1256">>

\* encodings of extract_text_from_txt, in its order
TxtEncodings == <<"utf-8", "utf-16", "latin-1", "cp1252", "iso-8859-1", "windows-1256">>

\* the loop "for encoding in encodings": an exception or an empty content goes
\* on with the next encoding
RECURSIVE ReadWithEncodings(_, _, _)
ReadWithEncodings(c, encodings, tried) ==
    IF encodings = <<>> THEN Extraction(<<>>, tried)
    ELSE LET read == c.txt[Head(encodings)]
         IN  IF ~read.raises /\ StripText(read.text) # <<>>
             THEN Extraction(StripText(read.text), Append(tried, Head(encodings)))
             ELSE ReadWithEncodings(c, Tail(encodings), Append(tried, Head(encodings)))

\* DocumentProcessor.extract_text_from_txt(txt_path)
ExtractTextFromTxt(c) == ReadWithEncodings(c, TxtEncodings, <<>>)

\* extractor = self.supported_extensions[extension]; extractor(str(file_path))
Extractor(c, f) ==
    IF Lower(f.ext) \in {DocxExt, DocExt} THEN ExtractTextFromDocx(c, f)
    ELSE ExtractTextFromTxt(c)

(***************************************************************************)
(* DocumentProcessor.ocr_pdf_pages: the temporary directory.  A temporary  *)
(* file is the directory it lies in, its kind (written by the rasterizer,  *)
(* or page_<i>.png) and its number.                                        *)
(***************************************************************************)
TempFile(dir, kind, i) == [dir |-> dir, kind |-> kind, i |-> i]

\* tempfile.mkdtemp(): a directory that does not exist yet
Mkdtemp(t) == CHOOSE d \in 1..(Cardinality(t.dirs) + 1) : d \notin t.dirs

\* os.rmdir in the place of shutil.rmtree: a directory with files in it stays
RmdirOnly(t, dir) ==
    IF \E file \in t.files : file.dir = dir THEN t
    ELSE [t EXCEPT !.dirs = @ \ {dir}]

\* shutil.rmtree(temp_dir): the directory and everything in it
Rmtree(t, dir) ==
    [dirs |-> t.dirs \ {dir}, files |-> {file \in t.files : file.dir # dir}]

\* string concatenation of two texts given as lines: the last line of the first
\* and the first line of the second become one line
ConcatText(a, b) ==
    IF a = <<>> THEN b
    ELSE IF b = <<>> THEN a
    ELSE LET l == a[Len(a)]
             r == Head(b)
             joined == IF l = TextLine(0) THEN r
                       ELSE IF r = TextLine(0) THEN l
                       ELSE TextLine(LineLen(l) + LineLen(r))
         IN  SubSeq(a, 1, Len(a) - 1) \o <<joined>> \o Tail(b)

\* len("--- Page 1 ---")
PageMarkerChars == 14

\* f"--- Page {i+1} ---\n{page_text.strip()}\n\n" for a page text of n characters
PageText(n) == <<TextLine(PageMarkerChars), TextLine(n), TextLine(0), TextLine(0)>>

\* "if len(text.strip()) < 50"
MinPdfChars == 50

InsufficientPdfText(text) == TextLen(StripText(text)) < MinPdfChars

\* the loop "for page_num, page in enumerate(pdf.pages)" of a text-layer
\* library over the pages i..read, where layer[i] is the number of characters
\* page.extract_text() gives for page i: a page without text adds nothing
RECURSIVE LayerPages(_, _, _)
LayerPages(layer, i, read) ==
    IF i > read THEN <<>>
    ELSE ConcatText(IF layer[i] > 0 THEN PageText(layer[i]) ELSE <<>>,
                    LayerPages(layer, i + 1, read))

\* extract_text_from_pdf(pdf_path) up to the decision to use OCR.  A library
\* reads c.<library>.read pages and then either raises (the except clause
\* prints and goes on, text keeps what the pages before gave) or is at the
\* end; PyPDF2 appends to the text pdfplumber left.
ExtractTextLayers(c) ==
    LET primary == LayerPages(c.layer, 1, c.plumber.read)
        second == InsufficientPdfText(primary)
        text == IF second THEN ConcatText(primary, LayerPages(c.layer, 1, c.pypdf.read))
                ELSE primary
    IN  [primary |-> primary,
         text |-> text,
         tiers |-> IF second THEN <<"pdfplumber", "pypdf2">> ELSE <<"pdfplumber">>,
         use_ocr |-> InsufficientPdfText(text)]

(***************************************************************************)
(* State.                                                                  *)
(***************************************************************************)
VARIABLES
    disk,        \* the source files that exist
    extracted,   \* for each supported file on disk, the text its extractor returns
    out,         \* the output directory: artifact name -> content
    now,         \* the clock: number of calls made so far
    last,        \* the call made last, and what it did
    processing_status,  \* backend: file_id -> status record
    tasks,       \* backend: file_id -> the background task queued for it
    running,     \* backend: the file_id whose task occupies the event loop, or 0
    response,    \* backend: the response sent last
    workers,     \* concurrent ingestion: where each process_single_file call stands
    observed,    \* concurrent ingestion: what the last reader of an artifact saw
    content,     \* extraction: what the readers and tools yield for each source file
    tmp,         \* extraction: the temporary directories and the files in them
    ocr          \* extraction: where the ocr_pdf_pages call stands

ingestVars == <<disk, extracted, out, now, last>>

uploadVars == <<processing_status, tasks, running, response>>

concVars == <<workers, observed>>

extractVars == <<content, tmp, ocr>>

(***************************************************************************)
(* Inputs of the sequential specification.                                 *)
(***************************************************************************)
ShortText == <<TextLine(10)>>
PlainText == <<TextLine(11)>>
\* a text whose second line reads "File Path: /d/s/a.pdf"
PathLineText == <<TextLine(14), TaggedLine("File Path:", <<" ">> \o PathStr(SUB_A_PDF))>>
\* a text whose second line reads "Source File: a.docx"
SourceLineText == <<TextLine(14), TaggedLine("Source File:", <<" ">> \o FileName(A_DOCX))>>

Texts == {ShortText, PlainText, PathLineText, SourceLineText}

\* the texts tried for each file
TextsOf(f) ==
    IF f = A_PDF THEN Texts
    ELSE IF f = A_DOCX THEN {ShortText, PlainText}
    ELSE {PlainText}

Faults == {"none", "extract", "write"}

NoCall ==
    [kind |-> "none", file |-> NoFile, dir |-> <<>>, results |-> <<>>,
     pre |-> {}, wrote |-> {}, overwrote |-> FALSE, changed |-> FALSE,
     overlapped |-> FALSE, found |-> 0, processed |-> 0, failed |-> 0, skipped |-> 0,
     rate |-> [defined |-> FALSE, num |-> 0, den |-> 0], trace |-> <<>>, tiers |-> <<>>]

\* some artifact of before is gone or has another content after
Changed(before, after) ==
    \E n \in DOMAIN before : n \notin DOMAIN after \/ after[n] # before[n]

NoResponse == [op |-> "none", file_id |-> 0, code |-> 0, status |-> "none"]

\* the backend before any request: processing_status = {}
UploadIdle ==
    /\ processing_status = [i \in {} |-> 0]
    /\ tasks = [i \in {} |-> 0]
    /\ running = 0
    /\ response = NoResponse

Workers == {"w1", "w2"}

IdleWorker == [pc |-> "idle", file |-> NoFile, name |-> None]

NoObservation == [by |-> "none", name |-> None, complete |-> TRUE]

\* no process_single_file call under way
NoWorkers ==
    /\ workers = [w \in Workers |-> IdleWorker]
    /\ observed = NoObservation

\* no temporary directory exists
NoTemp == [dirs |-> {}, files |-> {}]

\* no ocr_pdf_pages call under way
IdleOcr ==
    [pc |-> "idle", file |-> NoFile, temp_dir |-> 0, images |-> 0, i |-> 0,
     text |-> <<>>, raised |-> FALSE, primary |-> <<>>, layered |-> <<>>, tiers |-> <<>>]

\* the extractors are not looked into: extracted holds what they return
NoExtraction ==
    /\ content = [f \in {} |-> <<>>]
    /\ tmp = NoTemp
    /\ ocr = IdleOcr

IngestInit ==
    /\ disk = DiskFiles
    /\ extracted \in {t \in [{f \in DiskFiles : Lower(f.ext) \in SupportedExtensions} -> Texts] :
                        \A f \in DOMAIN t : t[f] \in TextsOf(f)}
    /\ out = EmptyDir
    /\ now = 0
    /\ last = NoCall
    /\ UploadIdle
    /\ NoWorkers
    /\ NoExtraction

\* a call of process_single_file(f)
SingleFile(f, fault) ==
    /\ now < MaxOps
    /\ \E r \in {ProcessSingleFile(disk, extracted, out, now + 1, f, fault)} :
           /\ out' = r.outdir
           /\ last' = [NoCall EXCEPT
                          !.kind = "single", !.file = f,
                          !.results = <<[file |-> f, outcome |-> r.outcome]>>,
                          !.pre = DOMAIN out,
                          !.wrote = IF r.wrote = None THEN {} ELSE {r.wrote},
                          !.overwrote = (r.wrote # None /\ r.wrote \in DOMAIN out),
                          !.changed = Changed(out, r.outdir),
                          !.found = 1,
                          !.processed = IF r.ok THEN 1 ELSE 0,
                          !.failed = IF r.ok THEN 0 ELSE 1,
                          !.trace = r.trace]
    /\ now' = now + 1
    /\ UNCHANGED <<disk, extracted>>
    /\ UNCHANGED <<uploadVars, concVars>>
    /\ UNCHANGED extractVars

\* a call of process_directory(dir) that enumerates the files in the order all_files
Directory(dir, all_files, bad) ==
    /\ now < MaxOps
    /\ \E r \in {IF all_files = <<>> THEN [NoBatch EXCEPT !.outdir = out]
                 ELSE ProcessDirectory(disk, extracted, out, now + 1, all_files, bad)} :
           /\ out' = r.outdir
           /\ last' = [NoCall EXCEPT
                          !.kind = "dir", !.dir = dir,
                          !.results = r.results,
                          !.pre = DOMAIN out,
                          !.wrote = r.wrote,
                          !.overwrote = r.overwrote,
                          !.changed = Changed(out, r.outdir),
                          !.found = Len(all_files),
                          !.processed = r.processed,
                          !.failed = r.failed,
                          !.skipped = r.skipped,
                          !.rate = SuccessRate(r.processed, Len(all_files), r.skipped),
                          !.trace = r.trace]
    /\ now' = now + 1
    /\ UNCHANGED <<disk, extracted>>
    /\ UNCHANGED <<uploadVars, concVars>>
    /\ UNCHANGED extractVars

\* a call of check_conflicts_only(input_path) that finds the files all_files
CheckConflicts(dir, file, all_files) ==
    /\ now < MaxOps
    /\ \E r \in {CheckConflictsOnly(out, all_files)} :
           /\ out' = r.outdir
           /\ last' = [NoCall EXCEPT
                          !.kind = "check", !.dir = dir, !.file = file,
                          !.pre = DOMAIN out,
                          !.changed = Changed(out, r.outdir) \/ DOMAIN r.outdir # DOMAIN out,
                          !.found = Len(all_files),
                          !.skipped = Cardinality(r.conflicts.skipped_files),
                          !.trace = r.trace]
    /\ now' = now + 1
    /\ UNCHANGED <<disk, extracted>>
    /\ UNCHANGED <<uploadVars, concVars>>
    /\ UNCHANGED extractVars

\* the paths check_conflicts_only is called with
CheckFiles == {A_PDF, A_XYZ, GONE_TXT}

\* in a batch the extractor of the file enumerated first may raise
IngestNext ==
    \/ \E f \in DiskFiles \cup {GONE_TXT}, fault \in Faults : SingleFile(f, fault)
    \/ \E dir \in InputDirs :
           \E all_files \in Orders(SupportedFilesUnder(disk, dir)) :
               \E bad \in {{}} \cup {{all_files[i]} : i \in DOMAIN all_files \cap {1}} :
                   Directory(dir, all_files, bad)
    \/ \E f \in CheckFiles :
           CheckConflicts(<<>>, f, IF f \in disk /\ Lower(f.ext) \in SupportedExtensions
                                   THEN <<f>> ELSE <<>>)
    \/ \E dir \in InputDirs :
           \E all_files \in Orders(SupportedFilesUnder(disk, dir)) :
               CheckConflicts(dir, NoFile, all_files)

vars == <<disk, extracted, out, now, last, processing_status, tasks, running, response,
         workers, observed, content, tmp, ocr>>

Init == IngestInit

Next == IngestNext

Spec == Init /\ [][Next]_vars

(***************************************************************************)
(* Properties of sequential ingestion.                                     *)
(***************************************************************************)
\* the artifact carries the provenance header of source f
IsArtifactOf(art, f) ==
    art.readable /\ Len(art.lines) >= 2 /\ SubSeq(art.lines, 1, 2) = HeaderOf(f)

ArtifactsOf(outdir, f) == {n \in DOMAIN outdir : IsArtifactOf(outdir[n], f)}

\* the step is a call of process_single_file in which no exception was raised
SingleCallStep == now' = now + 1 /\ last'.kind = "single" /\ last'.results[1].outcome # "Error"

\* the step is a call of process_directory in which no exception was raised
DirectoryCallStep ==
    /\ now' = now + 1
    /\ last'.kind = "dir"
    /\ \A i \in DOMAIN last'.results : last'.results[i].outcome # "Error"

\* C1: process_single_file(F) called twice in a row, the first call having ended
\* Written or Skipped: the second call ends Skipped, writes nothing, leaves the
\* output directory as it was, and exactly one artifact carries F's header.
C1_Idempotence ==
    [][ ( /\ last.kind = "single"
          /\ last.processed = 1
          /\ SingleCallStep
          /\ last'.file = last.file )
        => ( /\ last'.results[1].outcome = "Skipped"
             /\ last'.wrote = {}
             /\ out' = out
             /\ Cardinality(ArtifactsOf(out', last.file)) = 1 ) ]_vars

\* C2: process_directory called twice in a row on the same directory, no file of
\* the first run having failed: the second run skips every file, writes no
\* artifact and leaves the output directory as it was.
C2_BatchRerunNoOp ==
    [][ ( /\ last.kind = "dir"
          /\ last.failed = 0
          /\ DirectoryCallStep
          /\ last'.dir = last.dir )
        => ( /\ \A i \in DOMAIN last'.results :
                    last'.results[i].outcome \in {"PreSkipped", "Skipped"}
             /\ last'.wrote = {}
             /\ out' = out ) ]_vars

\* C3: a source written as base.txt, then a distinct source with the same
\* sanitized stem ingested successfully while base_1.txt is free: afterwards
\* base.txt carries the first source's header and is unchanged, and base_1.txt
\* carries the second source's header.
C3_CollisionSafety ==
    [][ ( /\ last.kind = "single"
          /\ last.wrote = {OutputName(SafeName(last.file.stem))}
          /\ AlternativeName(SafeName(last.file.stem), 1) \notin DOMAIN out
          /\ SingleCallStep
          /\ last'.processed = 1
          /\ last'.file # last.file
          /\ SafeName(last'.file.stem) = SafeName(last.file.stem) )
        => LET base == OutputName(SafeName(last.file.stem))
               base_1 == AlternativeName(SafeName(last.file.stem), 1)
           IN  /\ {base, base_1} \subseteq DOMAIN out'
               /\ out'[base] = out[base]
               /\ IsArtifactOf(out'[base], last.file)
               /\ IsArtifactOf(out'[base_1], last'.file) ]_vars

\* C4: in every call of process_single_file and process_directory, every artifact
\* that exists before the call exists with the same content after it, and no
\* write of the call goes to a path that existed when its name was chosen.
C4_NoSilentOverwrite ==
    [][ /\ \A n \in DOMAIN out : n \in DOMAIN out' /\ out'[n] = out[n]
        /\ ~last'.overwrote ]_vars

\* C4 witness: a batch wrote an alternative name beside the artifact it collided with
C4_Witness ==
    /\ last.kind = "dir"
    /\ OutputName(SafeName(A_PDF.stem)) \in last.pre
    /\ AlternativeName(SafeName(A_PDF.stem), 1) \in last.wrote

\* the events of a trace that concern file f and are of one of the kinds evs
EventsOf(trace, f, evs) == {i \in DOMAIN trace : trace[i].file = f /\ trace[i].ev \in evs}

\* C13: a batch attempts every supported file below the directory exactly once,
\* whatever fails: found = processed + failed + skipped, a file the pre-scan
\* skips is never passed on and every other file once, and the success rate is
\* processed / (found - skipped), computed only if found - skipped > 0 and then
\* at most 1.
C13_BatchNeverAborts ==
    last.kind = "dir" =>
        /\ last.found = last.processed + last.failed + last.skipped
        /\ Len(last.results) = last.found
        /\ {last.results[i].file : i \in DOMAIN last.results}
               = SupportedFilesUnder(disk, last.dir)
        /\ Cardinality(SupportedFilesUnder(disk, last.dir)) = last.found
        /\ \A i \in DOMAIN last.results :
               Cardinality(EventsOf(last.trace, last.results[i].file, {"call"}))
                   = IF last.results[i].outcome = "PreSkipped" THEN 0 ELSE 1
        /\ last.rate.defined <=> last.found - last.skipped > 0
        /\ last.rate.defined =>
               /\ last.rate.den = last.found - last.skipped
               /\ last.rate.den > 0
               /\ last.rate.num = last.processed
               /\ last.rate.num <= last.rate.den

\* C13 witness: in a batch a file failed and a file enumerated after it was written
C13_Witness ==
    /\ last.kind = "dir"
    /\ \E i, j \in DOMAIN last.results :
           /\ i < j
           /\ last.results[i].outcome \in {"NoText", "Error"}
           /\ last.results[j].outcome = "Written"

\* C14: a call of process_single_file that ends Skipped returns True, and in a
\* batch the failed counter counts exactly the files whose call returned
\* failure: a file skipped by the pre-scan counts as skipped, a file skipped by
\* process_single_file as processed.
C14_SkipIsNotFailure ==
    /\ (last.kind = "single" /\ last.results[1].outcome = "Skipped")
           => (last.processed = 1 /\ last.failed = 0)
    /\ last.kind = "dir" =>
           /\ last.failed = Cardinality({i \in DOMAIN last.results :
                                           last.results[i].outcome \in
                                               {"NotFound", "Unsupported", "NoText", "Error"}})
           /\ last.skipped = Cardinality({i \in DOMAIN last.results :
                                            last.results[i].outcome = "PreSkipped"})
           /\ last.processed = Cardinality({i \in DOMAIN last.results :
                                              last.results[i].outcome \in {"Written", "Skipped"}})

\* C14 witness: in a batch process_single_file skipped a file, which counts as
\* processed, and no file failed
C14_Witness ==
    /\ last.kind = "dir"
    /\ \E i \in DOMAIN last.results : last.results[i].outcome = "Skipped"
    /\ last.processed >= 2
    /\ last.failed = 0

\* C16: a call of process_single_file on a path that does not exist, or whose
\* lower-cased extension is not supported, returns failure, invokes no extractor
\* and leaves the output directory as it was.
C16_ErrorsLeaveOutputUnchanged ==
    [][ ( /\ now' = now + 1
          /\ last'.kind = "single"
          /\ (last'.file \notin disk \/ Lower(last'.file.ext) \notin SupportedExtensions) )
        => ( /\ out' = out
             /\ last'.processed = 0
             /\ last'.failed = 1
             /\ last'.wrote = {}
             /\ EventsOf(last'.trace, last'.file, {"extract", "write"}) = {} ) ]_vars

\* C16 witness: a call on a missing path, the output directory holding an artifact
C16_Witness ==
    /\ last.kind = "single"
    /\ last.file = GONE_TXT
    /\ last.results[1].outcome = "NotFound"
    /\ DOMAIN out # {}

\* C17: a call of check_conflicts_only leaves the output directory as it was
\* and invokes neither process_single_file nor an extractor nor a write.
C17_CheckConflictsReadOnly ==
    [][ (now' = now + 1 /\ last'.kind = "check")
        => ( /\ out' = out
             /\ \A i \in DOMAIN last'.trace : last'.trace[i].ev = "scan" ) ]_vars

\* C17 witness: a dry run on a directory found a file to skip
C17_Witness ==
    /\ last.kind = "check"
    /\ last.dir = RootDir
    /\ last.skipped >= 1
    /\ DOMAIN out # {}

\* the header of an artifact: its lines before the rule
HeaderLines(art) ==
    IF \E i \in DOMAIN art.lines : art.lines[i] = RuleLine
    THEN SubSeq(art.lines, 1, (CHOOSE i \in DOMAIN art.lines :
                                   /\ art.lines[i] = RuleLine
                                   /\ \A j \in 1..(i - 1) : art.lines[j] # RuleLine) - 1)
    ELSE art.lines

\* the value the header records for a prefix, None if it has no such line
HeaderValue(art, tag) ==
    LET h == HeaderLines(art)
    IN  IF \E i \in DOMAIN h : h[i].tag = tag
        THEN Strip(h[CHOOSE i \in DOMAIN h :
                         h[i].tag = tag /\ \A j \in 1..(i - 1) : h[j].tag # tag].rest)
        ELSE None

\* C19: the decision of generate_output_filename in a call that reaches it: the
\* candidate path if it does not exist; Skip if the header of the artifact there
\* names the source's filename and records its path or no path; else base_n.txt
\* for the smallest n >= 1 that does not exist.
C19_DecisionTable ==
    [][ ( /\ SingleCallStep
          /\ last'.results[1].outcome \in {"Written", "Skipped"} )
        => LET f == last'.file
               safe == SafeName(f.stem)
               candidate == OutputName(safe)
           IN  IF candidate \notin DOMAIN out
               THEN last'.wrote = {candidate}
               ELSE IF /\ out[candidate].readable
                       /\ HeaderValue(out[candidate], "Source File:") = FileName(f)
                       /\ HeaderValue(out[candidate], "File Path:") \in {PathStr(f), None, <<>>}
               THEN last'.results[1].outcome = "Skipped" /\ last'.wrote = {}
               ELSE \E n \in 1..(Cardinality(DOMAIN out) + 1) :
                        /\ last'.wrote = {AlternativeName(safe, n)}
                        /\ AlternativeName(safe, n) \notin DOMAIN out
                        /\ \A m \in 1..(n - 1) : AlternativeName(safe, m) \in DOMAIN out ]_vars

\* C20: in a batch the conflict checks of all enumerated files come first, in
\* enumeration order, and nothing of the batch is scanned later; a file the
\* pre-scan puts in the to-skip set is not passed to process_single_file, to an
\* extractor or to a write in that batch.
C20_PreScanFirst ==
    [][ (now' = now + 1 /\ last'.kind = "dir")
        => LET all_files == [i \in DOMAIN last'.results |-> last'.results[i].file]
               trace == last'.trace
               to_skip == AnalyzeDirectoryConflicts(out, all_files).skipped_files
           IN  /\ Len(trace) >= Len(all_files)
               /\ \A i \in DOMAIN trace :
                      IF i <= Len(all_files)
                      THEN trace[i] = Event("scan", all_files[i])
                      ELSE trace[i].ev # "scan"
               /\ \A f \in to_skip :
                      EventsOf(trace, f, {"call", "extract", "write"}) = {} ]_vars

\* C20 witness: a batch skipped one file after the pre-scan and wrote another
C20_Witness ==
    /\ last.kind = "dir"
    /\ last.skipped >= 1
    /\ \E i \in DOMAIN last.results : last.results[i].outcome = "Written"

\* the alternative name the pre-scan computes for file f, <<>> if it computes none
ReservedName(outdir, f) ==
    LET alternative_names == AnalyzeDirectoryConflicts(outdir, <<f>>).alternative_names
    IN  IF alternative_names = <<>> THEN <<>> ELSE alternative_names[1][2]

\* C21: in a batch, the alternative name the pre-scan computes for a file is the
\* name under which that file's artifact is written later in the batch, and two
\* files of the batch never get the same alternative name from the pre-scan.
C21_PreScanReservation ==
    [][ (now' = now + 1 /\ last'.kind = "dir")
        => LET to_rename == {last'.results[i].file : i \in DOMAIN last'.results}
                                \cap {f \in disk : ReservedName(out, f) # <<>>}
           IN  \A f \in to_rename :
                   /\ \A g \in to_rename \ {f} : ReservedName(out, g) # ReservedName(out, f)
                   /\ (\E i \in DOMAIN last'.results :
                           /\ last'.results[i].file = f
                           /\ last'.results[i].outcome = "Written")
                          => {n \in last'.wrote : IsArtifactOf(out'[n], f)}
                                 = {ReservedName(out, f)} ]_vars

\* C22: the artifact names present after a batch in which no exception was
\* raised, and so their number, are the same for every order in which the
\* files of the directory can be enumerated.
C22_OrderIndependence ==
    [][ DirectoryCallStep
        => \A other \in Orders(SupportedFilesUnder(disk, last'.dir)) :
               DOMAIN ProcessDirectory(disk, extracted, out, now + 1, other, {}).outdir
                   = DOMAIN out' ]_vars

\* C29: for every artifact written from a source S, _check_naming_conflict on
\* the artifact with input S reports S's filename, S's absolute path and
\* is_same_source, whatever the body of the artifact is.
C29_HeaderRoundTrip ==
    \A n \in DOMAIN out : \A f \in disk :
        IsArtifactOf(out[n], f) =>
            LET conflict_info == CheckNamingConflict(out[n], f)
            IN  /\ conflict_info.existing_source = FileName(f)
                /\ conflict_info.file_path = PathStr(f)
                /\ conflict_info.is_same_source

(***************************************************************************)
(* main() of ocr_system.main_ocr, as the upload workflow runs it:          *)
(* "python -m ocr_system.main_ocr <dataset_path>".                         *)
(***************************************************************************)
\* the process reaches the end of main(): the value process_single_file returns
\* is dropped, a path that is neither file nor directory is only reported
Main(dsk, extr, outdir, t, f, fault) ==
    IF f \in dsk
    THEN LET r == ProcessSingleFile(dsk, extr, outdir, t, f, fault)
         IN  [returncode |-> 0, outcome |-> r.outcome, outdir |-> r.outdir]
    ELSE [returncode |-> 0, outcome |-> "NotValid", outdir |-> outdir]

(***************************************************************************)
(* backend/app.py: upload_file, process_uploaded_file, get_processing_status *)
(***************************************************************************)
UP_A_TXT == File(DatasetDir, <<"a">>, TxtExt)
UP_A_XYZ == File(DatasetDir, <<"a">>, XyzExt)

\* the uploads tried
UploadNames == {UP_A_TXT, UP_A_XYZ}
UploadTexts == {ShortText, PlainText}

\* allowed_extensions of upload_file
AllowedExtensions == SupportedExtensions

\* outcomes of process_single_file that the pipeline calls Failed
FailedOutcomes == {"NotFound", "Unsupported", "NoText", "Error"}

\* an identifier that is not fresh: the one an earlier upload got, if there is one
ReusedFileId ==
    IF DOMAIN tasks = {} THEN Cardinality(DOMAIN tasks) + 1
    ELSE CHOOSE i \in DOMAIN tasks : TRUE

\* file_id = str(uuid.uuid4()): an identifier no earlier upload got
NewFileId == Cardinality(DOMAIN tasks) + 1

StatusRecord(status, message, f) == [status |-> status, message |-> message, filename |-> FileName(f)]

\* process_uploaded_file without "except subprocess.TimeoutExpired": the
\* exception leaves the task and the status stays as it was
FinalStatusTimeoutEscapes(f, result, unlinked) ==
    CASE result = "exit0" /\ unlinked -> StatusRecord("completed", "processed", f)
      [] result = "exit0" /\ ~unlinked -> StatusRecord("completed", "not deleted", f)
      [] result = "exit1" -> StatusRecord("error", "failed", f)
      [] result = "timeout" -> StatusRecord("processing", "extracting", f)
      [] result = "exception" -> StatusRecord("error", "exception", f)

\* the status process_uploaded_file stores after subprocess.run: result is how
\* the run ended, unlinked whether dataset_path.unlink() succeeded
FinalStatus(f, result, unlinked) ==
    CASE result = "exit0" /\ unlinked -> StatusRecord("completed", "processed", f)
      [] result = "exit0" /\ ~unlinked -> StatusRecord("completed", "not deleted", f)
      [] result = "exit1" -> StatusRecord("error", "failed", f)
      [] result = "timeout" -> StatusRecord("error", "timed out", f)
      [] result = "exception" -> StatusRecord("error", "exception", f)

\* POST /upload; large: the content exceeds 50 MB
UploadFile(f, text, large) ==
    /\ running = 0
    /\ Cardinality(DOMAIN tasks) < MaxUploads
    /\ IF Lower(f.ext) \notin AllowedExtensions \/ large
       THEN /\ response' = [op |-> "upload", file_id |-> 0, code |-> 400, status |-> "rejected"]
            /\ UNCHANGED <<disk, extracted, tasks>>
       ELSE \E file_id \in {NewFileId} :
            /\ disk' = disk \cup {f}
            /\ extracted' = [g \in DOMAIN extracted \cup {f} |->
                                IF g = f THEN text ELSE extracted[g]]
            /\ tasks' = [i \in DOMAIN tasks \cup {file_id} |->
                            IF i = file_id
                            THEN [file |-> f, pc |-> "queued", result |-> "none",
                                  ingest |-> "none", unlinked |-> FALSE]
                            ELSE tasks[i]]
            /\ response' = [op |-> "upload", file_id |-> file_id, code |-> 200,
                            status |-> "uploaded"]
    /\ UNCHANGED <<out, now, last, processing_status, running, concVars>>
    /\ UNCHANGED extractVars

\* process_uploaded_file, first statement: the task gets the event loop
TaskStart(file_id) ==
    /\ running = 0
    /\ file_id \in DOMAIN tasks
    /\ tasks[file_id].pc = "queued"
    /\ processing_status' =
           [i \in DOMAIN processing_status \cup {file_id} |->
               IF i = file_id
               THEN StatusRecord("processing", "extracting", tasks[file_id].file)
               ELSE processing_status[i]]
    /\ tasks' = [tasks EXCEPT ![file_id].pc = "started"]
    /\ running' = file_id
    /\ UNCHANGED <<disk, extracted, out, now, last, response, concVars>>
    /\ UNCHANGED extractVars

\* how subprocess.run(cmd, timeout=300) ends: it raises ("exception"), the
\* child is killed at the timeout, the child dies with a non-zero code
\* ("crash"), or main() runs to its end ("exit")
RunEnds == {"exception", "timeout", "crash", "exit"}

\* process_uploaded_file, subprocess.run
TaskRun(file_id, how, fault) ==
    /\ running = file_id
    /\ file_id \in DOMAIN tasks
    /\ tasks[file_id].pc = "started"
    /\ IF how = "exit"
       THEN \E m \in {Main(disk, extracted, out, now + 1, tasks[file_id].file, fault)} :
            /\ out' = m.outdir
            /\ now' = now + 1
            /\ tasks' = [tasks EXCEPT ![file_id].pc = "ran",
                                      ![file_id].result = IF m.returncode = 0 THEN "exit0"
                                                          ELSE "exit1",
                                      ![file_id].ingest = m.outcome]
       ELSE /\ fault = "none"
            /\ tasks' = [tasks EXCEPT ![file_id].pc = "ran",
                                      ![file_id].result = IF how = "crash" THEN "exit1"
                                                          ELSE how]
            /\ UNCHANGED <<out, now>>
    /\ UNCHANGED <<disk, extracted, last, processing_status, running, response, concVars>>
    /\ UNCHANGED extractVars

\* process_uploaded_file after subprocess.run: unlink and final status;
\* denied: unlink() raises although the file is there
TaskFinish(file_id, denied) ==
    /\ running = file_id
    /\ file_id \in DOMAIN tasks
    /\ tasks[file_id].pc = "ran"
    /\ LET f == tasks[file_id].file
           unlinked == tasks[file_id].result = "exit0" /\ f \in disk /\ ~denied
       IN  /\ disk' = IF unlinked THEN disk \ {f} ELSE disk
           /\ extracted' = IF unlinked THEN [g \in DOMAIN extracted \ {f} |-> extracted[g]]
                           ELSE extracted
           /\ processing_status' =
                  [processing_status EXCEPT ![file_id] =
                      FinalStatus(f, tasks[file_id].result, unlinked)]
           /\ tasks' = [tasks EXCEPT ![file_id].pc = "done", ![file_id].unlinked = unlinked]
    /\ running' = 0
    /\ UNCHANGED <<out, now, last, response, concVars>>
    /\ UNCHANGED extractVars

\* GET /upload/status/{file_id}
GetProcessingStatus(file_id) ==
    /\ running = 0
    /\ response' = IF file_id \in DOMAIN processing_status
                   THEN [op |-> "status", file_id |-> file_id, code |-> 200,
                         status |-> processing_status[file_id].status]
                   ELSE [op |-> "status", file_id |-> file_id, code |-> 404,
                         status |-> "NotFound"]
    /\ UNCHANGED <<disk, extracted, out, now, last, processing_status, tasks, running, concVars>>
    /\ UNCHANGED extractVars

UploadInit ==
    /\ disk = {}
    /\ extracted = [g \in {} |-> <<>>]
    /\ out = EmptyDir
    /\ now = 0
    /\ last = NoCall
    /\ UploadIdle
    /\ NoWorkers
    /\ NoExtraction

TaskStep ==
    \/ \E file_id \in DOMAIN tasks : TaskStart(file_id)
    \/ \E file_id \in DOMAIN tasks, how \in RunEnds, fault \in Faults :
           TaskRun(file_id, how, fault)
    \/ \E file_id \in DOMAIN tasks, denied \in BOOLEAN : TaskFinish(file_id, denied)

UploadNext ==
    \/ \E f \in UploadNames, text \in UploadTexts, large \in BOOLEAN : UploadFile(f, text, large)
    \/ TaskStep
    \/ \E file_id \in 1..MaxUploads : GetProcessingStatus(file_id)

UploadSpec == UploadInit /\ [][UploadNext]_vars

\* the framework runs every queued task, and subprocess.run returns or raises
\* within its timeout
UploadFairSpec == UploadSpec /\ WF_vars(TaskStep)

(***************************************************************************)
(* Properties of the upload workflow.                                      *)
(***************************************************************************)
\* C5: a job is 'completed' only if its ingestion ended Written or Skipped, and a
\* finished job whose ingestion ended Failed has status 'error'.
C5_CompletedOnlyOnSuccess ==
    \A file_id \in DOMAIN processing_status :
        /\ processing_status[file_id].status = "completed"
               => tasks[file_id].ingest \in {"Written", "Skipped"}
        /\ (tasks[file_id].pc = "done" /\ tasks[file_id].ingest \in FailedOutcomes)
               => processing_status[file_id].status = "error"

\* C6: a task deletes the uploaded file only after an ingestion that ended Written
\* or Skipped; a task whose ingestion ended Failed has not deleted it.
C6_DeleteOnlyAfterSuccess ==
    \A file_id \in DOMAIN tasks :
        /\ tasks[file_id].unlinked => tasks[file_id].ingest \in {"Written", "Skipped"}
        /\ tasks[file_id].ingest \in FailedOutcomes => ~tasks[file_id].unlinked

\* C7: a status request for a file_id that upload_file has returned is never
\* answered NotFound.
C7_NeverNotFound ==
    (response.op = "status" /\ response.file_id \in DOMAIN tasks) => response.code = 200

\* C8: every job with status 'processing' eventually has status 'completed' or
\* 'error', and a run that ended with a non-zero exit, the timeout or an
\* exception leaves its finished job with status 'error'.
C8_JobsTerminate ==
    /\ \A file_id \in 1..MaxUploads :
           (/\ file_id \in DOMAIN processing_status
            /\ processing_status[file_id].status = "processing")
           ~> (/\ file_id \in DOMAIN processing_status
               /\ processing_status[file_id].status \in {"completed", "error"})
    /\ [](\A file_id \in DOMAIN tasks :
              (tasks[file_id].pc = "done"
               /\ tasks[file_id].result \in {"exit1", "timeout", "exception"})
              => /\ processing_status[file_id].status = "error"
                 /\ processing_status[file_id].message # "")

\* C8 witness: a job whose subprocess timed out ended with status 'error'
C8_Witness ==
    \E file_id \in DOMAIN processing_status :
        /\ tasks[file_id].result = "timeout"
        /\ processing_status[file_id].status = "error"

\* C9: a job record only appears as 'processing', only changes from 'processing'
\* to 'completed' or 'error', and is never removed.
C9_StatusMonotonic ==
    [][ \A file_id \in DOMAIN processing_status \cup DOMAIN processing_status' :
            /\ file_id \in DOMAIN processing_status'
            /\ file_id \notin DOMAIN processing_status
                   => processing_status'[file_id].status = "processing"
            /\ (file_id \in DOMAIN processing_status
                /\ processing_status'[file_id] # processing_status[file_id])
                   => /\ processing_status[file_id].status = "processing"
                      /\ processing_status'[file_id].status \in {"completed", "error"} ]_vars

\* C9 witness: one job is 'completed', another is 'error'
C9_Witness ==
    \E i, j \in DOMAIN processing_status :
        /\ processing_status[i].status = "completed"
        /\ processing_status[j].status = "error"

(***************************************************************************)
(* Concurrent ingestion: several processes run process_single_file on the  *)
(* same output directory; a call is its extraction, the choice of the      *)
(* output name, open(output_file, 'w') and the writes up to the close.     *)
(***************************************************************************)
\* the lines are the header process_single_file writes, up to the rule and the
\* empty line after it
HeaderComplete(art) ==
    /\ art.readable
    /\ Len(art.lines) >= 7
    /\ \A i \in 1..5 :
           art.lines[i].tag =
               <<"Source File:", "File Path:", "Extraction Date:", "File Type:",
                 "Text Length:">>[i]
    /\ art.lines[6] = RuleLine
    /\ art.lines[7] = TextLine(0)

\* what open(output_file, 'w') leaves at the path until the buffered writes are
\* flushed: an empty file
OpenedFile == Artifact(<<>>)

\* What the calls so far have done is kept in last: results are the calls that
\* returned True after writing, overwrote says that an open() found its path
\* taken, overlapped that a call began while another one was under way

\* process_single_file up to the extraction: the call goes on if the text suffices
WorkerExtract(w, f) ==
    /\ now < MaxOps
    /\ workers[w].pc = "idle"
    /\ f \in disk
    /\ Lower(f.ext) \in SupportedExtensions
    /\ extracted[f] # <<>> /\ TextLen(StripText(extracted[f])) > MinTextChars
    /\ workers' = [workers EXCEPT ![w] = [pc |-> "extracted", file |-> f, name |-> None]]
    /\ now' = now + 1
    /\ last' = [last EXCEPT !.overlapped = @ \/ \E v \in Workers \ {w} : workers[v].pc # "idle"]
    /\ UNCHANGED <<disk, extracted, out, uploadVars, observed>>
    /\ UNCHANGED extractVars

\* output_file = self.generate_output_filename(file_path); the conflict check
\* reads the artifact at the candidate path if there is one
WorkerName(w) ==
    /\ workers[w].pc = "extracted"
    /\ \E output_file \in {GenerateOutputFilename(out, workers[w].file)} :
           workers' = [workers EXCEPT ![w] =
                          IF output_file.action = "Skip" THEN IdleWorker
                          ELSE [@ EXCEPT !.pc = "named", !.name = output_file.name]]
    /\ observed' =
           LET candidate == OutputName(SafeName(workers[w].file.stem))
           IN  IF candidate \in DOMAIN out
               THEN [by |-> w, name |-> candidate, complete |-> HeaderComplete(out[candidate])]
               ELSE observed
    /\ UNCHANGED <<disk, extracted, out, now, last, uploadVars>>
    /\ UNCHANGED extractVars

\* with open(output_file, 'w', encoding='utf-8') as f
WorkerOpen(w) ==
    /\ workers[w].pc = "named"
    /\ out' = WriteFile(out, workers[w].name, OpenedFile)
    /\ workers' = [workers EXCEPT ![w].pc = "open"]
    /\ last' = [last EXCEPT !.overwrote = @ \/ workers[w].name \in DOMAIN out]
    /\ UNCHANGED <<disk, extracted, now, uploadVars, observed>>
    /\ UNCHANGED extractVars

\* the f.write calls and the end of the with block
WorkerClose(w) ==
    /\ workers[w].pc = "open"
    /\ out' = WriteFile(out, workers[w].name,
                        Artifact(ArtifactLines(workers[w].file,
                                               extracted[workers[w].file], now)))
    /\ workers' = [workers EXCEPT ![w] = IdleWorker]
    /\ last' = [last EXCEPT !.results = Append(@, [file |-> workers[w].file, outcome |-> "Written",
                                                   name |-> workers[w].name]),
                            !.wrote = @ \cup {workers[w].name}]
    /\ UNCHANGED <<disk, extracted, now, uploadVars, observed>>
    /\ UNCHANGED extractVars

\* another reader of the output directory (list_existing_files, the retrieval
\* layer) opens an artifact and reads it
Reader(name) ==
    /\ name \in DOMAIN out
    /\ observed' = [by |-> "reader", name |-> name, complete |-> HeaderComplete(out[name])]
    /\ UNCHANGED <<disk, extracted, out, now, last, uploadVars, workers>>
    /\ UNCHANGED extractVars

ConcInit ==
    /\ disk = DiskFiles
    /\ extracted = [f \in {g \in DiskFiles : Lower(g.ext) \in SupportedExtensions} |-> PlainText]
    /\ out = EmptyDir
    /\ now = 0
    /\ last = NoCall
    /\ UploadIdle
    /\ NoWorkers
    /\ NoExtraction

ConcNext ==
    \/ \E w \in Workers, f \in DiskFiles : WorkerExtract(w, f)
    \/ \E w \in Workers : WorkerName(w)
    \/ \E w \in Workers : WorkerOpen(w)
    \/ \E w \in Workers : WorkerClose(w)
    \/ \E name \in DOMAIN out : Reader(name)

ConcSpec == ConcInit /\ [][ConcNext]_vars

\* C10: no reader of the output directory ever sees a file that exists and whose
\* provenance header is missing or incomplete.
C10_AtomicWrite == observed.complete

\* a call returned True after writing the text of a source, and no artifact of
\* that source is in the output directory
LostText ==
    \E i \in DOMAIN last.results : ArtifactsOf(out, last.results[i].file) = {}

\* C23: the check-then-write race needs two calls under way at once: a path
\* that is taken is opened for writing, and the text of a written source is
\* lost, only if a call began while another one was under way.
C23_RaceNeedsOverlap == (last.overwrote \/ LostText) => last.overlapped

\* C23 witness: two calls on distinct sources have both returned after writing
\* the same path, one artifact is left and the first source's text is gone
C23_Witness ==
    /\ \A w \in Workers : workers[w].pc = "idle"
    /\ Len(last.results) = 2
    /\ last.results[1].file # last.results[2].file
    /\ last.results[1].name = last.results[2].name
    /\ DOMAIN out = {last.results[1].name}
    /\ ArtifactsOf(out, last.results[1].file) = {}
    /\ ArtifactsOf(out, last.results[2].file) = {last.results[2].name}

(***************************************************************************)
(* Extraction: process_single_file with the extractor of a Word or text    *)
(* file computed from the file's content, and ocr_pdf_pages step by step.  *)
(* A behaviour has one source file.                                        *)
(***************************************************************************)
\* number of pages of the scanned PDF
MaxPages == 2

B_DOC == File(RootDir, <<"b">>, DocExt)
NOTES_TXT == File(RootDir, <<"n", "o", "t", "e", "s">>, TxtExt)
SCAN_PDF == File(RootDir, <<"s">>, PdfExt)
\* a name with an accented letter and a space
ACCENT_TXT == File(RootDir, <<"n", "E_ACUTE", " ", "e">>, TxtExt)

\* Document(docx_path): not a .docx file, no text, a blank and a plain
\* paragraph, a paragraph and a table row
DocxReads ==
    { [raises |-> TRUE, paragraphs |-> <<>>, rows |-> <<>>],
      [raises |-> FALSE, paragraphs |-> <<>>, rows |-> <<>>],
      [raises |-> FALSE, paragraphs |-> <<0, 10>>, rows |-> <<>>],
      [raises |-> FALSE, paragraphs |-> <<4>>, rows |-> << <<2, 0, 2>>, <<0>> >>] }

\* subprocess.run(['antiword', doc_path], timeout=30): not installed or timed
\* out, a non-zero exit, and 10 and 11 characters between blank lines
AntiwordRuns ==
    { [raises |-> TRUE, returncode |-> 0, stdout |-> <<>>],
      [raises |-> FALSE, returncode |-> 1, stdout |-> <<TextLine(11)>>],
      [raises |-> FALSE, returncode |-> 0, stdout |-> <<TextLine(0), TextLine(10), TextLine(0)>>],
      [raises |-> FALSE, returncode |-> 0, stdout |-> <<TextLine(0), TextLine(11), TextLine(0)>>] }

NoRuns == [e \in Range(ScanEncodings) |-> <<>>]

\* the readable runs in the bytes: unreadable file, no run, runs that make 10
\* characters (5 + 1 + 4) and 11 characters (5 + 1 + 5)
Scans ==
    { [raises |-> TRUE, runs |-> NoRuns],
      [raises |-> FALSE, runs |-> NoRuns],
      [raises |-> FALSE, runs |-> [NoRuns EXCEPT !["latin-1"] = <<5>>, !["cp1252"] = <<4>>]],
      [raises |-> FALSE, runs |-> [NoRuns EXCEPT !["latin-1"] = <<5>>, !["cp1252"] = <<5>>]] }

DocContents == [docx : DocxReads, antiword : AntiwordRuns, scan : Scans]

\* a text file read with each encoding; latin-1 and the encodings after it
\* decode every byte
Decoded(utf8, utf16, rest) ==
    [txt |-> [e \in Range(TxtEncodings) |->
                 IF e = "utf-8" THEN utf8 ELSE IF e = "utf-16" THEN utf16 ELSE rest]]

\* 200 characters of UTF-8 text, 10 characters, 11 characters that are not
\* UTF-8, a UTF-16 file, blank lines only
TxtContents ==
    { Decoded(Yields(<<TextLine(200)>>), Raises, Yields(<<TextLine(212)>>)),
      Decoded(Yields(<<TextLine(10), TextLine(0)>>), Raises, Yields(<<TextLine(10), TextLine(0)>>)),
      Decoded(Raises, Raises, Yields(<<TextLine(11)>>)),
      Decoded(Raises, Yields(<<TextLine(11)>>), Yields(<<TextLine(24)>>)),
      Decoded(Yields(<<TextLine(0), TextLine(0)>>), Raises, Yields(<<TextLine(0), TextLine(0)>>)) }

\* a text-layer library on a PDF of n pages: it reads some pages and raises,
\* or reads them all
LayerReads(n) ==
    {[raises |-> TRUE, read |-> k] : k \in 0..n} \cup {[raises |-> FALSE, read |-> n]}

\* a PDF: its pages, the characters of the text layer of every page (none;
\* 34, which with the page marker makes 49; 35, which makes 50), what each
\* text-layer library does with it, and the characters the OCR engine reads
\* on each page
PdfContents ==
    UNION {[pages : {n}, layer : {[i \in 1..n |-> chars] : chars \in {0, 34, 35}},
            plumber : LayerReads(n), pypdf : LayerReads(n),
            ocr_text : [1..n -> {0, 12}]] : n \in 1..MaxPages}

ExtractFiles == {B_DOC, NOTES_TXT, SCAN_PDF, ACCENT_TXT}

ContentsOf(f) ==
    IF f = B_DOC THEN DocContents
    ELSE IF Lower(f.ext) = TxtExt THEN TxtContents
    ELSE PdfContents

ExtractInit ==
    /\ \E f \in ExtractFiles :
           \E c \in ContentsOf(f) :
               /\ disk = {f}
               /\ content = [g \in {f} |-> c]
    /\ extracted = [g \in {} |-> <<>>]
    /\ out = EmptyDir
    /\ now = 0
    /\ last = NoCall
    /\ UploadIdle
    /\ NoWorkers
    /\ tmp = NoTemp
    /\ ocr = IdleOcr

\* process_single_file(f), the extractor reading the content of f
Ingest(f, fault) ==
    /\ now < MaxOps
    /\ f \in disk
    /\ Lower(f.ext) \in {DocxExt, DocExt, TxtExt}
    /\ \E e \in {Extractor(content[f], f)} :
           /\ extracted' = [g \in DOMAIN extracted \cup {f} |->
                               IF g = f THEN e.text ELSE extracted[g]]
           /\ \E r \in {ProcessSingleFile(disk, extracted', out, now + 1, f, fault)} :
                  /\ out' = r.outdir
                  /\ last' = [NoCall EXCEPT
                                 !.kind = "single", !.file = f,
                                 !.results = <<[file |-> f, outcome |-> r.outcome]>>,
                                 !.pre = DOMAIN out,
                                 !.wrote = IF r.wrote = None THEN {} ELSE {r.wrote},
                                 !.overwrote = (r.wrote # None /\ r.wrote \in DOMAIN out),
                                 !.changed = Changed(out, r.outdir),
                                 !.found = 1,
                                 !.processed = IF r.ok THEN 1 ELSE 0,
                                 !.failed = IF r.ok THEN 0 ELSE 1,
                                 !.trace = r.trace,
                                 !.tiers = e.tiers]
    /\ now' = now + 1
    /\ UNCHANGED <<disk, content, tmp, ocr, uploadVars, concVars>>

\* process_single_file(f) on a PDF, up to the point of extract_text_from_pdf
\* where the text layer has been read: OCR follows if the text is too short
PdfCall(f) ==
    /\ now < MaxOps
    /\ ocr.pc \in {"idle", "done"}
    /\ f \in disk
    /\ Lower(f.ext) = PdfExt
    /\ \E r \in {ExtractTextLayers(content[f])} :
           ocr' = [IdleOcr EXCEPT !.pc = IF r.use_ocr THEN "ocr" ELSE "extracted",
                                  !.file = f, !.primary = r.primary,
                                  !.layered = r.text, !.tiers = r.tiers]
    /\ now' = now + 1
    /\ UNCHANGED <<disk, extracted, out, last, content, tmp, uploadVars, concVars>>

\* text = self.ocr_pdf_pages(pdf_path), up to temp_dir = tempfile.mkdtemp(),
\* which may raise
OcrStart(f, raises) ==
    /\ ocr.pc = "ocr"
    /\ f = ocr.file
    /\ IF raises
       THEN /\ ocr' = [ocr EXCEPT !.pc = "finally", !.raised = TRUE,
                                  !.tiers = Append(@, "ocr")]
            /\ tmp' = tmp
       ELSE /\ ocr' = [ocr EXCEPT !.pc = "convert", !.temp_dir = Mkdtemp(tmp),
                                  !.tiers = Append(@, "ocr")]
            /\ tmp' = [tmp EXCEPT !.dirs = @ \cup {Mkdtemp(tmp)}]
    /\ UNCHANGED <<disk, extracted, out, now, last, content, uploadVars, concVars>>

\* images = convert_from_path(pdf_path, ..., output_folder=temp_dir): the
\* rasterizer writes one file for each page into temp_dir; it may raise after
\* having written k of them
OcrConvert(k, raises) ==
    /\ ocr.pc = "convert"
    /\ k \in 0..content[ocr.file].pages
    /\ ~raises => k = content[ocr.file].pages
    /\ tmp' = [tmp EXCEPT !.files = @ \cup {TempFile(ocr.temp_dir, "raster", j) : j \in 1..k}]
    /\ ocr' = IF raises THEN [ocr EXCEPT !.pc = "finally", !.raised = TRUE]
              ELSE [ocr EXCEPT !.pc = "page", !.images = k]
    /\ UNCHANGED <<disk, extracted, out, now, last, content, uploadVars, concVars>>

\* convert_from_path is called without a timeout: a rasterizer that does not
\* end leaves the call waiting
OcrConvertHangs ==
    /\ ocr.pc = "convert"
    /\ ocr' = [ocr EXCEPT !.pc = "hung"]
    /\ UNCHANGED <<disk, extracted, out, now, last, content, tmp, uploadVars, concVars>>

\* one turn of "for i, image in enumerate(images)": image.save, the OCR of the
\* page, os.remove; fault "save": image.save raises, fault "remove": os.remove
\* raises, which is passed over
OcrPage(fault) ==
    /\ ocr.pc = "page"
    /\ ocr.i < ocr.images
    /\ LET temp_path == TempFile(ocr.temp_dir, "page", ocr.i)
           page_text == content[ocr.file].ocr_text[ocr.i + 1]
       IN  IF fault = "save"
           THEN /\ tmp' = [tmp EXCEPT !.files = @ \cup {temp_path}]
                /\ ocr' = [ocr EXCEPT !.pc = "finally", !.raised = TRUE]
           ELSE /\ tmp' = IF fault = "remove"
                          THEN [tmp EXCEPT !.files = @ \cup {temp_path}]
                          ELSE [tmp EXCEPT !.files = @ \ {temp_path}]
                /\ ocr' = [ocr EXCEPT
                              !.text = IF page_text > 0 THEN ConcatText(@, PageText(page_text))
                                       ELSE @,
                              !.i = @ + 1,
                              !.pc = IF ocr.i + 1 = ocr.images THEN "finally" ELSE "page"]
    /\ UNCHANGED <<disk, extracted, out, now, last, content, uploadVars, concVars>>

\* pytesseract.image_to_string is called without a timeout: an OCR engine
\* that does not end leaves the call waiting, the page image saved
OcrPageHangs ==
    /\ ocr.pc = "page"
    /\ ocr.i < ocr.images
    /\ tmp' = [tmp EXCEPT !.files = @ \cup {TempFile(ocr.temp_dir, "page", ocr.i)}]
    /\ ocr' = [ocr EXCEPT !.pc = "hung"]
    /\ UNCHANGED <<disk, extracted, out, now, last, content, uploadVars, concVars>>

\* the finally block and "return text"
OcrFinally ==
    /\ ocr.pc = "finally"
    /\ tmp' = IF ocr.temp_dir # 0 /\ ocr.temp_dir \in tmp.dirs
              THEN Rmtree(tmp, ocr.temp_dir)
              ELSE tmp
    /\ ocr' = [ocr EXCEPT !.pc = "returned"]
    /\ UNCHANGED <<disk, extracted, out, now, last, content, uploadVars, concVars>>

\* "return text.strip()" of extract_text_from_pdf and the rest of
\* process_single_file: the text is the one ocr_pdf_pages returned if OCR was
\* used, the text of the text layer otherwise
PdfIngest(fault) ==
    /\ ocr.pc \in {"extracted", "returned"}
    /\ LET f == ocr.file
           text == IF ocr.pc = "returned" THEN ocr.text ELSE ocr.layered
       IN  /\ extracted' = [g \in DOMAIN extracted \cup {f} |->
                               IF g = f THEN StripText(text) ELSE extracted[g]]
           /\ \E r \in {ProcessSingleFile(disk, extracted', out, now, f, fault)} :
                  /\ out' = r.outdir
                  /\ last' = [NoCall EXCEPT
                                 !.kind = "single", !.file = f,
                                 !.results = <<[file |-> f, outcome |-> r.outcome]>>,
                                 !.pre = DOMAIN out,
                                 !.wrote = IF r.wrote = None THEN {} ELSE {r.wrote},
                                 !.overwrote = (r.wrote # None /\ r.wrote \in DOMAIN out),
                                 !.changed = Changed(out, r.outdir),
                                 !.found = 1,
                                 !.processed = IF r.ok THEN 1 ELSE 0,
                                 !.failed = IF r.ok THEN 0 ELSE 1,
                                 !.trace = r.trace,
                                 !.tiers = ocr.tiers]
    /\ ocr' = [ocr EXCEPT !.pc = "done"]
    /\ UNCHANGED <<disk, now, content, tmp, uploadVars, concVars>>

\* a step of a call of process_single_file that is under way
CallStep ==
    \/ \E f \in ExtractFiles, raises \in BOOLEAN : OcrStart(f, raises)
    \/ \E k \in 0..MaxPages, raises \in BOOLEAN : OcrConvert(k, raises)
    \/ \E fault \in {"none", "save", "remove"} : OcrPage(fault)
    \/ OcrFinally
    \/ \E fault \in {"none", "write"} : PdfIngest(fault)

ExtractNext ==
    \/ \E f \in ExtractFiles, fault \in {"none", "write"} : Ingest(f, fault)
    \/ \E f \in ExtractFiles : PdfCall(f)
    \/ CallStep
    \/ OcrConvertHangs
    \/ OcrPageHangs

ExtractSpec == ExtractInit /\ [][ExtractNext]_vars

\* a call that is under way takes its next step: Python goes on with the
\* next statement unless the one it is in does not return
ExtractFairSpec == ExtractSpec /\ WF_vars(CallStep)

(***************************************************************************)
(* Properties of extraction.                                               *)
(***************************************************************************)
\* the number of characters of a text once stripped
Trimmed(text) == TextLen(StripText(text))

\* C11: a call whose extractor returns a text of at most 10 characters once
\* stripped (10 included) ends Failed and writes nothing, and one of 11 or more
\* ends Written or Skipped unless the write raises; a tier of the legacy reader
\* that yields exactly 10 characters is passed over for the next tier, and the
\* first tier that yields 11 or more is the one whose stripped text is returned.
C11_ThresholdBoundary ==
    (last.kind = "single" /\ last.file \in DOMAIN extracted) =>
        LET f == last.file
            c == content[f]
            outcome == last.results[1].outcome
        IN  /\ Trimmed(extracted[f]) <= 10
                => (outcome = "NoText" /\ last.failed = 1 /\ last.wrote = {} /\ ~last.changed)
            /\ Trimmed(extracted[f]) >= 11 => outcome \in {"Written", "Skipped", "Error"}
            /\ outcome = "Written" => Trimmed(extracted[f]) >= 11
            /\ "antiword" \in Range(last.tiers) =>
                   /\ Trimmed(TryAntiword(c)) >= 11
                          => /\ last.tiers[Len(last.tiers)] = "antiword"
                             /\ extracted[f] = StripText(TryAntiword(c))
                   /\ Trimmed(TryAntiword(c)) <= 10 => "scan" \in Range(last.tiers)
                   /\ (Trimmed(TryAntiword(c)) <= 10 /\ Trimmed(TryTextExtraction(c)) >= 11)
                          => /\ last.tiers[Len(last.tiers)] = "scan"
                             /\ extracted[f] = StripText(TryTextExtraction(c))
                   /\ (Trimmed(TryAntiword(c)) <= 10 /\ Trimmed(TryTextExtraction(c)) <= 10)
                          => "placeholder" \in Range(last.tiers)

\* C11 witness: the converter gave exactly 10 characters and was passed over,
\* the scan gave exactly 11 and its text was written
C11_Witness ==
    /\ last.kind = "single"
    /\ last.file = B_DOC
    /\ Trimmed(TryAntiword(content[B_DOC])) = 10
    /\ Trimmed(TryTextExtraction(content[B_DOC])) = 11
    /\ last.tiers = <<"docx", "antiword", "scan">>
    /\ last.results[1].outcome = "Written"
    /\ Trimmed(extracted[B_DOC]) = 11

\* the line of the message _doc_to_ocr returns is in the artifact
HoldsPlaceholder(art) ==
    \E i \in DOMAIN art.lines : art.lines[i].tag = "Legacy .doc file detected."

\* C12: a call in which every tier of the Word reader gave too little (the
\* legacy reader came to its last tier) returns failure and writes nothing, and
\* no artifact ever holds the message of the last tier.
C12_ExhaustionIsFailure ==
    /\ (last.kind = "single" /\ "placeholder" \in Range(last.tiers))
           => (last.failed = 1 /\ last.wrote = {})
    /\ \A n \in DOMAIN out : ~HoldsPlaceholder(out[n])

C18_HeaderValues ==
    \A n \in DOMAIN out : \A f \in disk :
        IsArtifactOf(out[n], f) =>
            /\ OutputName(SafeName(f.stem)) \in DOMAIN out
            /\ Len(out[n].lines) >= 8
            /\ out[n].lines[4]
                   = TaggedLine("File Type:", <<" ">> \o Upper(Tail(Lower(f.ext))))
            /\ out[n].lines[5]
                   = TaggedLine("Text Length:",
                                <<" ">> \o Str(TextLen(SubSeq(out[n].lines, 8, Len(out[n].lines))))
                                        \o CharactersSuffix)
            /\ (f = NOTES_TXT /\ TextLen(extracted[f]) = 200) =>
                   /\ OutputName(<<"n", "o", "t", "e", "s">>) \in DOMAIN out
                   /\ out[n].lines[4] = TaggedLine("File Type:", <<" ", "T", "X", "T">>)
                   /\ out[n].lines[5] = TaggedLine("Text Length:",
                                                   <<" ", "2", "0", "0">> \o CharactersSuffix)

\* the call of process_single_file on a PDF has returned
PdfCallDone == ocr.pc = "done" /\ last.kind = "single" /\ last.file = ocr.file

\* C24: extraction ends whatever the tools do: a call of process_single_file
\* that is under way comes to its end, with the outcome Skipped, Written or
\* Failed (no text, or an exception caught), even if the rasterizer or the OCR
\* engine does not answer.
C24_ExtractionTerminates ==
    (ocr.pc \notin {"idle", "done"})
        ~> (PdfCallDone /\ last.results[1].outcome \in {"Skipped", "Written", "NoText", "Error"})

\* C25: PyPDF2 is tried only if the text pdfplumber left has fewer than 50
\* characters once stripped, and OCR only if the text has still fewer than 50
\* after PyPDF2; with 50 or more from the text layer nothing else runs and no
\* temporary directory is made; a text-layer library that raises counts as
\* having given nothing, so that the next strategy is tried.
C25_PdfFallbackOrder ==
    ocr.pc # "idle" =>
        LET c == content[ocr.file]
            tiers == Range(ocr.tiers)
        IN  /\ "pypdf2" \in tiers <=> Trimmed(ocr.primary) < 50
            /\ (ocr.pc \notin {"ocr", "extracted"} /\ Trimmed(ocr.layered) < 50) => "ocr" \in tiers
            /\ "ocr" \in tiers => Trimmed(ocr.layered) < 50
            /\ Trimmed(ocr.layered) >= 50
                   => /\ ocr.temp_dir = 0 /\ tmp = NoTemp
                      /\ ocr.tiers \in {<<"pdfplumber">>, <<"pdfplumber", "pypdf2">>}
            /\ Trimmed(ocr.primary) >= 50 => ocr.tiers = <<"pdfplumber">>
            /\ c.plumber.raises => "pypdf2" \in tiers
            /\ (c.plumber.raises /\ c.pypdf.raises /\ ocr.pc \notin {"ocr", "extracted"})
                   => "ocr" \in tiers

\* a text file decodes with encoding e to content that is not empty once stripped
Qualifies(c, e) == ~c.txt[e].raises /\ StripText(c.txt[e].text) # <<>>

\* C26: extract_text_from_txt returns the stripped content of the first of
\* utf-8, utf-16, latin-1, cp1252, iso-8859-1, windows-1256 that decodes the
\* file to content that is not empty; the encodings before it were tried and
\* none after it; it returns the empty string only if none does.
C26_FirstEncodingWins ==
    (last.kind = "single" /\ Lower(last.file.ext) = TxtExt /\ last.file \in DOMAIN extracted) =>
        LET c == content[last.file]
            order == <<"utf-8", "utf-16", "latin-1", "cp1252", "iso-8859-1", "windows-1256">>
            good == {i \in DOMAIN order : Qualifies(c, order[i])}
        IN  IF good = {}
            THEN extracted[last.file] = <<>> /\ last.tiers = order
            ELSE LET k == CHOOSE i \in good : \A j \in good : i <= j
                 IN  /\ extracted[last.file] = StripText(c.txt[order[k]].text)
                     /\ extracted[last.file] # <<>>
                     /\ last.tiers = SubSeq(order, 1, k)

\* C26 witness: utf-8 raised, utf-16 gave the text that was written, and
\* latin-1, which was not tried, would have given another text
C26_Witness ==
    /\ last.kind = "single"
    /\ last.file = NOTES_TXT
    /\ last.results[1].outcome = "Written"
    /\ content[NOTES_TXT].txt["utf-8"].raises
    /\ last.tiers = <<"utf-8", "utf-16">>
    /\ Qualifies(content[NOTES_TXT], "latin-1")
    /\ extracted[NOTES_TXT] # StripText(content[NOTES_TXT].txt["latin-1"].text)

\* the characters of [A-Za-z0-9_.-]
AsciiNameChars ==
    Range(LowerChars) \cup Range(UpperChars) \cup Range(DigitChars) \cup {"_", ".", "-"}

\* C27: the candidate output name is the stem with every character outside
\* [A-Za-z0-9_.-] replaced by '_', followed by '.txt': a call that writes into
\* the empty output directory writes that name, and every artifact name is made
\* of characters of [A-Za-z0-9_.-] only.
C27_SanitizedName ==
    /\ \A n \in DOMAIN out : Range(n) \subseteq AsciiNameChars
    /\ (last.kind = "single" /\ last.results[1].outcome = "Written" /\ last.pre = {}) =>
           last.wrote
               = {[i \in DOMAIN last.file.stem |->
                      IF last.file.stem[i] \in AsciiNameChars THEN last.file.stem[i] ELSE "_"]
                  \o TxtExt}

(***************************************************************************)
(* The OCR engine: ocr_system/ocr_processor.py.  The text the engine reads *)
(* is a string of characters, and clean_extracted_text is computed on it.  *)
(***************************************************************************)
\* length of the strings the engine returns
MaxChars == 4

\* text.split('\n')
RECURSIVE SplitLines(_)
SplitLines(s) ==
    LET breaks == {i \in DOMAIN s : s[i] = "\n"}
    IN  IF breaks = {} THEN <<s>>
        ELSE LET k == CHOOSE i \in breaks : \A j \in breaks : i <= j
             IN  <<SubSeq(s, 1, k - 1)>> \o SplitLines(SubSeq(s, k + 1, Len(s)))

\* [line.strip() for line in text.split('\n') if line.strip()]
StrippedLines(text) ==
    LET lines == SplitLines(text)
    IN  SelectSeq([i \in DOMAIN lines |-> Strip(lines[i])], LAMBDA line : line # <<>>)

\* '\n'.join(lines)
RECURSIVE JoinLines(_)
JoinLines(lines) ==
    IF lines = <<>> THEN <<>>
    ELSE IF Len(lines) = 1 THEN lines[1]
    ELSE lines[1] \o <<"\n">> \o JoinLines(Tail(lines))

\* re.sub(r' +', ' ', s)
RECURSIVE CollapseSpaces(_)
CollapseSpaces(s) ==
    IF Len(s) < 2 THEN s
    ELSE IF s[1] = " " /\ s[2] = " " THEN CollapseSpaces(Tail(s))
    ELSE <<s[1]>> \o CollapseSpaces(Tail(s))

\* clean_extracted_text without the re.sub of the runs of spaces
CleanExtractedTextNoCollapse(text) ==
    IF text = <<>> THEN <<>> ELSE Strip(JoinLines(StrippedLines(text)))

\* OCRProcessor.clean_extracted_text(text)
CleanExtractedText(text) ==
    IF text = <<>> THEN <<>>
    ELSE Strip(CollapseSpaces(JoinLines(StrippedLines(text))))

\* an image file: what cv2.imread gives for it ("array", "None", or it
\* raises), whether Image.open reads it, and whether the filters go through
Images == [imread : {"array", "None", "raises"}, pil : {"image", "raises"},
           filters : {"ok", "raises"}]

\* OCRProcessor.preprocess_image(image_path): the array, or None after any exception
PreprocessImage(image) ==
    IF image.imread = "raises" THEN "None"
    ELSE IF image.imread = "None" /\ image.pil = "raises" THEN "None"
    ELSE IF image.filters = "raises" THEN "None"
    ELSE "array"

\* the try block of extract_text_from_image: engine is what
\* pytesseract.image_to_string does ("text": it returns raw, "raises")
Recognise(image, engine, raw) ==
    LET processed_img == PreprocessImage(image)
        input == IF processed_img # "None" THEN "processed" ELSE "original"
    IN  IF processed_img = "None" /\ image.pil = "raises"
        THEN [raises |-> TRUE, text |-> <<>>, input |-> input, recognised |-> FALSE]
        ELSE IF engine = "raises"
        THEN [raises |-> TRUE, text |-> <<>>, input |-> input, recognised |-> FALSE]
        ELSE [raises |-> FALSE, text |-> CleanExtractedText(raw), input |-> input,
              recognised |-> TRUE]

\* extract_text_from_image without the except clause
ExtractTextFromImageNoExcept(image, engine, raw) == Recognise(image, engine, raw)

\* OCRProcessor.extract_text_from_image(image_path): "except Exception: return ''"
ExtractTextFromImage(image, engine, raw) ==
    LET r == Recognise(image, engine, raw)
    IN  IF r.raises THEN [r EXCEPT !.raises = FALSE, !.text = <<>>] ELSE r

PAGE_PNG == File(RootDir, <<"p">>, <<".", "p", "n", "g">>)

\* the characters of the texts the engine reads
OcrChars == {"a", " ", "\t", "\n"}

\* the text of the cleanup test of test_ocr_system.py
DirtyText ==
    <<" ", " ", "L", "i", "n", "e", " ", "1", " ", " ", "\n", "\n", " ", " ", "\n",
      " ", " ", "L", "i", "n", "e", " ", "2", " ", " ", " ", "\n", "\n", "\n",
      " ", " ", "L", "i", "n", "e", " ", "3", " ", " ">>

RawTexts == UNION {[1..n -> OcrChars] : n \in 0..MaxChars} \cup {DirtyText}

OcrInit ==
    /\ disk = {PAGE_PNG}
    /\ \E raw \in RawTexts : content = [f \in {PAGE_PNG} |-> raw]
    /\ extracted = [g \in {} |-> <<>>]
    /\ out = EmptyDir
    /\ now = 0
    /\ last = NoCall
    /\ UploadIdle
    /\ NoWorkers
    /\ tmp = NoTemp
    /\ ocr = IdleOcr

\* a call of extract_text_from_image on the image file f
ImageOcr(f, image, engine) ==
    /\ f \in disk
    /\ last' = [NoCall EXCEPT
                   !.kind = "image", !.file = f,
                   !.results = <<[image |-> image, engine |-> engine,
                                  result |-> ExtractTextFromImage(image, engine, content[f])]>>]
    /\ UNCHANGED <<disk, extracted, out, now, content, tmp, ocr, uploadVars, concVars>>

\* a call of clean_extracted_text on the text of f
CleanText(f) ==
    /\ f \in disk
    /\ last' = [NoCall EXCEPT
                   !.kind = "clean", !.file = f,
                   !.results = <<[text |-> CleanExtractedText(content[f])]>>]
    /\ UNCHANGED <<disk, extracted, out, now, content, tmp, ocr, uploadVars, concVars>>

OcrNext ==
    \/ \E image \in Images, engine \in {"text", "raises"} : ImageOcr(PAGE_PNG, image, engine)
    \/ CleanText(PAGE_PNG)

OcrSpec == OcrInit /\ [][OcrNext]_vars

\* C28: extract_text_from_image never raises and returns the empty string when
\* anything inside fails; when preprocess_image returns None the engine is run
\* on the original image; and the text returned is the cleaned text of what the
\* engine read, on both paths.
C28_EngineNeverThrows ==
    last.kind = "image" =>
        LET call == last.results[1]
            r == call.result
            raw == content[last.file]
            preprocessed ==
                /\ call.image.imread # "raises"
                /\ call.image.imread = "None" => call.image.pil = "image"
                /\ call.image.filters = "ok"
        IN  /\ ~r.raises
            /\ ~r.recognised => r.text = <<>>
            /\ r.input = (IF preprocessed THEN "processed" ELSE "original")
            /\ r.recognised <=>
                   /\ call.engine = "text"
                   /\ ~preprocessed => call.image.pil = "image"
            /\ r.recognised =>
                   /\ r.text = CleanExtractedText(raw)
                   /\ r.text = CollapseSpaces(JoinLines(StrippedLines(raw)))

\* C28 witness: the filters raised, the engine was run on the original image,
\* and the text returned is the cleaned one, which differs from what was read
C28_Witness ==
    /\ last.kind = "image"
    /\ last.results[1].image.filters = "raises"
    /\ last.results[1].result.input = "original"
    /\ last.results[1].result.recognised
    /\ last.results[1].result.text # <<>>
    /\ last.results[1].result.text # content[last.file]

\* C30: the text clean_extracted_text returns has no blank line, no line that
\* begins or ends with whitespace and no two spaces in a row (the empty text
\* has no line at all); the text of the cleanup test becomes
\* 'Line 1\nLine 2\nLine 3'; and cleaning the result again changes nothing.
C30_CleanupNormalises ==
    last.kind = "clean" =>
        LET t == last.results[1].text
        IN  /\ t # <<>> => (t[1] \notin Whitespace /\ t[Len(t)] \notin Whitespace)
            /\ \A i \in DOMAIN t :
                   t[i] = "\n" => (t[i - 1] \notin Whitespace /\ t[i + 1] \notin Whitespace)
            /\ \A i \in 1..(Len(t) - 1) : ~(t[i] = " " /\ t[i + 1] = " ")
            /\ CleanExtractedText(t) = t
            /\ content[last.file] = DirtyText
                   => t = <<"L", "i", "n", "e", " ", "1", "\n", "L", "i", "n", "e", " ", "2", "\n",
                            "L", "i", "n", "e", " ", "3">>

\* C30 witness: a text with blank lines, spaces around a line and two spaces in
\* a row has been cleaned
C30_Witness ==
    /\ last.kind = "clean"
    /\ content[last.file] = <<" ", "a", " ", " ", "a", "\n", "\n", "a", " ">>
           \/ content[last.file] = <<"a", " ", " ", "a">>
    /\ last.results[1].text = <<"a", " ", "a">>

====
